---- MODULE Spec2Model ----
(***************************************************************************)
(* A model of aio_snowplow_tracker.emitters.Emitter: one emitter instance, *)
(* its buffer, byte counter and asyncio lock, and a bounded number of      *)
(* coroutines (tasks) that call input, flush or sync_flush on it.  Code    *)
(* between two awaits runs without interruption (asyncio is cooperative),  *)
(* so one action is one such stretch: a task is suspended only while it    *)
(* waits for the lock or for the response of an HTTP request.              *)
(***************************************************************************)
EXTENDS Integers, Sequences, FiniteSets, TLC

\* ------------------------------------------------------------------ bounds
\* Number of calls (each made by its own task) on the emitter.
NumTasks == 3
\* buffer_size is drawn from 1..MaxBufferSize.
MaxBufferSize == 3
\* byte_limit is None or MaxByteLimit.
MaxByteLimit == 6
MaxInputs == 21
MaxRequests == 3
MaxHeap == 7
MaxLive == 3
TwoBufferSize == 2

\* ------------------------------------------------------- program constants
\* Python's None, for byte_limit, bytes_queued and a payload without stm.
None == -1
CallerSession == 0
\* DEFAULT_MAX_LENGTH
DEFAULT_MAX_LENGTH == 10
PAYLOAD_DATA_SCHEMA == "iglu:com.snowplowanalytics.snowplow/payload_data/jsonschema/1-0-4"
PROTOCOLS == {"http", "https"}
METHODS == {"get", "post"}

Tasks == 1..NumTasks

\* The values of len(str(payload)) of the payloads handed to input
\* (len(str({})) is 2).
PayloadLens == {2, 4}

\* Readings of time.time(), in milliseconds.
ClockReadings == {1000, 1999}

\* What the awaited session.post / session.get can end with: a response
\* with a status code, an aiohttp.ClientError (connection refused, DNS
\* failure, a ServerTimeoutError), or an exception that is no ClientError
\* (asyncio.TimeoutError, raised when the total request timeout expires).
StatusCodes == {199, 200, 399, 400}
Responses == [type : {"status"}, status : StatusCodes]
    \cup [type : {"ClientError", "TimeoutError"}, status : {0}]

VARIABLES
    method,         \* self.method
    buffer_size,    \* self.buffer_size
    byte_limit,     \* self.byte_limit (None when not configured)
    on_success,     \* TRUE iff an on_success callback is registered
    on_failure,     \* TRUE iff an on_failure callback is registered
    client_session, \* self.client_session: None, or the caller's session
    buffer,         \* self.buffer
    bytes_queued,   \* self.bytes_queued
    lock,           \* self.lock: [locked, waiters]
    task,           \* per task: position and locals of its call
    ncalls,         \* number of calls made so far
    requests,       \* history: HTTP requests issued, in order
    callbacks,      \* history: callback invocations, in order
    flushes,        \* history: invocations of _flush_unsafe, in order
    timer,          \* self.timer: None, or the index in timers of a Timer
    timers,         \* every Timer object created so far: its state
    disarmed,       \* history: cancel_flush_timer has been called since the
                    \* last call of set_flush_timer by the application
    probe,          \* argument of a static method / constructor under study
    answer,         \* what that call gave
    heap,           \* two emitters side by side: the objects they and their
                    \* caller have created, by address
    emitters        \* ... the attributes of the two instances

config == <<method, buffer_size, byte_limit, on_success, on_failure,
            client_session>>
timing == <<timer, timers, disarmed>>
study == <<probe, answer>>
instances == <<heap, emitters>>
vars == <<method, buffer_size, byte_limit, on_success, on_failure,
          client_session, buffer,
          bytes_queued, lock, task, ncalls, requests, callbacks, flushes,
          timer, timers, disarmed, probe, answer, heap, emitters>>

\* ---------------------------------------------------------------- helpers
Ids(evts) == [i \in 1..Len(evts) |-> evts[i].id]

Range(s) == {s[i] : i \in 1..Len(s)}

Digit == <<"0", "1", "2", "3", "4", "5", "6", "7", "8", "9">>

RECURSIVE str(_)
\* str(n), the decimal numeral of a natural number.
str(n) == IF n < 10 THEN Digit[n + 1] ELSE str(n \div 10) \o Digit[(n % 10) + 1]

\* The value of the key stm in a mapping that has no such key.
NoStm == [str |-> None]

\* A payload handed to input by call t: a mapping whose string form has
\* length n, holding a value that is no string (the integer n), without stm.
Payload(t, n) == [id |-> t, len |-> n, vals |-> [int |-> n], stm |-> NoStm]

\* Faulty variant of Stringified: the payload is stored as given.
Stringified_not(payload) == payload

\* {key: str(payload[key]) for key in payload}
Stringified(payload) == [payload EXCEPT !.vals = [str |-> str(@.int)]]

\* len(str(payload))
StrLen(payload) == payload.len

IdleTask == [pc |-> "idle", kind |-> "none", payload |-> Payload(0, 0),
             flush_now |-> FALSE, evts |-> <<>>, i |-> 0,
             success_events |-> <<>>, failure_events |-> <<>>]

\* ------------------------------------------------------------ pure helpers
\* Emitter.attach_sent_timestamp with time.time() read as c milliseconds:
\* every event gets stm = str(int(time.time()) * 1000).
attach_sent_timestamp(events, c) ==
    [i \in 1..Len(events) |->
        [events[i] EXCEPT !.stm = [str |-> (c \div 1000) * 1000]]]

\* Emitter.is_good_status_code
is_good_status_code(status_code) == 200 <= status_code /\ status_code < 400

\* Faulty variants of reached_limit: `>` for `>=` on the count threshold;
\* the count threshold met one event early; the byte threshold forgotten.
reached_limit_strict(buf, byts) ==
    IF byte_limit = None
    THEN Len(buf) > buffer_size
    ELSE (IF byts = None THEN 0 ELSE byts) >= byte_limit
         \/ Len(buf) > buffer_size

reached_limit_early(buf, byts) ==
    IF byte_limit = None
    THEN Len(buf) + 1 >= buffer_size
    ELSE (IF byts = None THEN 0 ELSE byts) >= byte_limit
         \/ Len(buf) + 1 >= buffer_size

reached_limit_count_only(buf, byts) == Len(buf) >= buffer_size

\* Emitter.reached_limit, on buffer buf and byte count byts.
reached_limit(buf, byts) ==
    IF byte_limit = None
    THEN Len(buf) >= buffer_size
    ELSE (IF byts = None THEN 0 ELSE byts) >= byte_limit
         \/ Len(buf) >= buffer_size

\* SelfDescribingJson(PAYLOAD_DATA_SCHEMA, evts).to_string(): a string
\* holding the schema and the batch.
to_string(evts) == [type |-> "str", schema |-> PAYLOAD_DATA_SCHEMA, data |-> evts]

\* A list of payload mappings, as handed to a callback.
ListOf(evts) == [type |-> "list", data |-> evts]

\* session.post(self.endpoint, data=data, ...) issued by task t.
PostRequest(t, data, sess) ==
    [task |-> t, verb |-> "post", body |-> data, result |-> "pending",
     session |-> sess]

\* session.get(self.endpoint, params=payload, ...) issued by task t.
GetRequest(t, payload, sess) ==
    [task |-> t, verb |-> "get",
     body |-> [type |-> "params", data |-> <<payload>>], result |-> "pending",
     session |-> sess]

\* `self.client_session if self.client_session else aiohttp.ClientSession()`
\* (lines 204, 233), reqs being the requests issued before: the caller's
\* session, or a new one, which no other request uses.
Session(reqs) ==
    [id |-> IF client_session # None THEN client_session ELSE Len(reqs) + 1,
     open |-> TRUE]

\* Faulty variant of Closed: the session is closed, whose ever it is.
Closed_always(sess) == [sess EXCEPT !.open = FALSE]

\* The `finally` clause of http_post / http_get (lines 219-221, 243-245),
\* passed on every way out of the request:
\* `if session != self.client_session: await session.close()`.  Nothing
\* of the emitter changes while the close is awaited (the task holds the
\* lock), so the close is taken in the step in which the request ends.
Closed(sess) ==
    IF sess.id # client_session THEN [sess EXCEPT !.open = FALSE] ELSE sess

\* The `except aiohttp.ClientError` clause of http_post / http_get: TRUE
\* iff the outcome r of the awaited request leaves the wrapper as a return
\* value (a response, or a caught ClientError), FALSE iff it propagates.
Returns(r) == r.type \in {"status", "ClientError"}

\* post_succeeded / get_succeeded, the value http_post / http_get returns.
request_succeeded(r) == r.type = "status" /\ is_good_status_code(r.status)

\* How a request that ends with r ends for send_events: http_post /
\* http_get returns True ("ok") or False ("failed"), or raises.
Classified(r) ==
    IF ~Returns(r) THEN "raised"
    ELSE IF request_succeeded(r) THEN "ok" ELSE "failed"

\* -------------------------------------------------------- the endpoint
\* The outcome of a call: the value returned, or the exception raised.
Return(v) == [raises |-> "none", value |-> v]
Raise(e) == [raises |-> e, value |-> ""]

\* Faulty variant of as_collector_uri: `if not port` for `if port is None`,
\* which drops the port 0.
as_collector_uri_falsy_port(endpoint, protocol, port, meth) ==
    IF Len(endpoint) < 1
    THEN Raise("ValueError")
    ELSE LET path == IF meth = "get" THEN "/i"
                     ELSE "/com.snowplowanalytics.snowplow/tp2"
         IN  IF port = None \/ port = 0
             THEN Return(protocol \o "://" \o endpoint \o path)
             ELSE Return(protocol \o "://" \o endpoint \o ":" \o str(port) \o path)

\* Faulty variant of as_collector_uri: no check of the endpoint.
as_collector_uri_unchecked(endpoint, protocol, port, meth) ==
    LET path == IF meth = "get" THEN "/i"
                ELSE "/com.snowplowanalytics.snowplow/tp2"
    IN  IF port = None
        THEN Return(protocol \o "://" \o endpoint \o path)
        ELSE Return(protocol \o "://" \o endpoint \o ":" \o str(port) \o path)

\* Emitter.as_collector_uri
as_collector_uri(endpoint, protocol, port, meth) ==
    IF Len(endpoint) < 1
    THEN Raise("ValueError")
    ELSE LET path == IF meth = "get" THEN "/i"
                     ELSE "/com.snowplowanalytics.snowplow/tp2"
         IN  IF port = None
             THEN Return(protocol \o "://" \o endpoint \o path)
             ELSE Return(protocol \o "://" \o endpoint \o ":" \o str(port) \o path)

\* one_of(value, supported), of aio_snowplow_tracker.contracts: passes
\* iff the value is one of the supported ones, and raises otherwise.
one_of(value, supported) == value \in supported

\* Emitter.__init__ up to self.endpoint (lines 92-95): what the
\* construction raises, or the endpoint of the emitter constructed.
Emitter_init(endpoint, protocol, port, meth) ==
    IF ~one_of(protocol, PROTOCOLS) THEN Raise("ConfigurationError")
    ELSE IF ~one_of(meth, METHODS) THEN Raise("ConfigurationError")
    ELSE as_collector_uri(endpoint, protocol, port, meth)

\* ---------------------------------------------------------------- the lock
\* Faulty variant of CanAcquire: input and flush enter without the lock.
CanAcquire_unlocked == TRUE

\* asyncio.Lock.acquire returns at once iff the lock is free and no waiter
\* is queued; otherwise the caller queues (first in, first out).
CanAcquire == ~lock.locked /\ lock.waiters = <<>>

\* Faulty variant of Release: the lock stays held.
Release_not(lk) == lk

\* asyncio.Lock.release, at the exit of `async with self.lock` (normal or
\* by an exception): the lock is free and the first waiter is woken.
Release(lk) == [lk EXCEPT !.locked = FALSE]

\* ------------------------------------------------------------ flush pieces
\* The call of a task has returned: its locals are gone.
Done(tk) ==
    [IdleTask EXCEPT !.pc = "done", !.kind = tk.kind, !.payload = tk.payload,
                     !.flush_now = tk.flush_now]

\* The call of a task has ended with an exception raised to its caller.
Raised(tk) ==
    [IdleTask EXCEPT !.pc = "raised", !.kind = tk.kind, !.payload = tk.payload,
                     !.flush_now = tk.flush_now]

\* Faulty variant of NonEmpty: send_events without its emptiness test.
NonEmpty_always(evts) == TRUE

\* `if len(evts) > 0` of send_events (line 272).
NonEmpty(evts) == Len(evts) > 0

\* The buffer and the byte count of the emitter as a callback invoked by
\* send_events finds them: send_events is awaited at line 191 and the
\* reset of lines 192-194 comes after it has returned.
AtCallback == [buffer |-> buffer, bytes_queued |-> bytes_queued]

\* Lines 295-298 of send_events: the callback invocations of a flush by
\* task t whose outcome is succ / fail.
Invoke(t, succ, fail) ==
    (IF on_success /\ Len(succ) > 0
     THEN <<[task |-> t, name |-> "on_success", count |-> None, arg |-> ListOf(succ),
             saw |-> AtCallback]>>
     ELSE <<>>)
    \o
    (IF on_failure /\ Len(fail) > 0
     THEN <<[task |-> t, name |-> "on_failure", count |-> Len(succ), arg |-> ListOf(fail),
             saw |-> AtCallback]>>
     ELSE <<>>)

\* Faulty variant of ResetBytes: the byte count is not reset.
ResetBytes_not(byts) == byts

\* self.bytes_queued = 0 unless it is None (lines 193-194).
ResetBytes(byts) == IF byts # None THEN 0 ELSE byts

\* _flush_unsafe called by task t (whose record so far is tk) holding the
\* lock lk, with the buffer buf and byte count byts: send_events(self.buffer)
\* up to its first await, or all of it when the buffer is empty.
FlushUnsafe(t, tk, buf, byts, lk) ==
    /\ flushes' = Append(flushes, [task |-> t, ids |-> Ids(buf)])
    /\ IF NonEmpty(buf)
       THEN \E c \in ClockReadings :
              LET evts == attach_sent_timestamp(buf, c) IN
              IF method = "post" \/ Len(evts) > 0
              THEN /\ buffer' = evts
                   /\ bytes_queued' = byts
                   /\ lock' = lk
                   /\ requests' = Append(requests,
                         IF method = "post"
                         THEN PostRequest(t, to_string(evts), Session(requests))
                         ELSE GetRequest(t, evts[1], Session(requests)))
                   /\ task' = [task EXCEPT ![t] =
                         [tk EXCEPT !.pc = "http", !.evts = evts, !.i = 1]]
                   /\ UNCHANGED callbacks
              ELSE \* `for evt in evts` over no event: no request, no callback
                   /\ buffer' = <<>>
                   /\ bytes_queued' = ResetBytes(byts)
                   /\ lock' = Release(lk)
                   /\ task' = [task EXCEPT ![t] = Done(tk)]
                   /\ UNCHANGED <<requests, callbacks>>
       ELSE \* "Skipping flush since buffer is empty", then lines 192-194
            /\ buffer' = <<>>
            /\ bytes_queued' = ResetBytes(byts)
            /\ lock' = Release(lk)
            /\ task' = [task EXCEPT ![t] = Done(tk)]
            /\ UNCHANGED <<requests, callbacks>>

\* The body of input under the lock (lines 158-167).
EnterInput(t, tk, lk) ==
    LET byts == IF bytes_queued # None
                THEN bytes_queued + StrLen(tk.payload)
                ELSE bytes_queued
        buf == Append(buffer, IF method = "post"
                              THEN Stringified(tk.payload)
                              ELSE tk.payload)
    IN  IF reached_limit(buf, byts)
        THEN FlushUnsafe(t, tk, buf, byts, lk)
        ELSE /\ buffer' = buf
             /\ bytes_queued' = byts
             /\ lock' = Release(lk)
             /\ task' = [task EXCEPT ![t] = Done(tk)]
             /\ UNCHANGED <<requests, callbacks, flushes>>

\* The body of flush under the lock (line 185).
EnterFlush(t, tk, lk) == FlushUnsafe(t, tk, buffer, bytes_queued, lk)

\* Faulty variant of Enter: sync_flush returns without flushing.
Enter_sync_returns(t, tk, lk) ==
    IF tk.kind = "input" THEN EnterInput(t, tk, lk)
    ELSE IF tk.kind = "sync_flush"
    THEN /\ lock' = Release(lk)
         /\ task' = [task EXCEPT ![t] = Done(tk)]
         /\ UNCHANGED <<buffer, bytes_queued, requests, callbacks, flushes>>
    ELSE EnterFlush(t, tk, lk)

Enter(t, tk, lk) ==
    IF tk.kind = "input" THEN EnterInput(t, tk, lk) ELSE EnterFlush(t, tk, lk)

\* `async with self.lock:` on entry of input / flush: go on at once when
\* the lock can be taken, otherwise queue and suspend.
Call(t, tk) ==
    /\ IF CanAcquire
       THEN Enter(t, tk, [lock EXCEPT !.locked = TRUE])
       ELSE /\ lock' = [lock EXCEPT !.waiters = Append(@, t)]
            /\ task' = [task EXCEPT ![t] = [tk EXCEPT !.pc = "waiting"]]
            /\ UNCHANGED <<buffer, bytes_queued, requests, callbacks, flushes>>
    /\ ncalls' = t
    /\ UNCHANGED config

\* ------------------------------------------------------------ the timer
\* Timer(timeout, callback, args), of aio_snowplow_tracker._timer: a new
\* timer object, pending, added to the timers tms.
NewTimer(tms) == Append(tms, "pending")

\* Timer.cancel on timer k of tms: a pending timer never fires; a timer
\* that has fired already (its callback runs or has run) is not affected.
TimerCancel(tms, k) ==
    IF tms[k] = "pending" THEN [tms EXCEPT ![k] = "cancelled"] ELSE tms

\* Faulty variant of Schedule: only the call by the application makes a
\* timer, the callback of a timer makes none.
Schedule_first(t, tms) ==
    IF task'[t].kind = "set_flush_timer" /\ task'[t].pc = "done" /\ timer = None
    THEN /\ timers' = NewTimer(tms)
         /\ timer' = Len(tms) + 1
    ELSE /\ timers' = tms
         /\ timer' = timer

\* Line 316 of set_flush_timer, reached in the step in which the call of
\* task t gets past its `await self.flush()` (or has no flush to do):
\* `self.timer = Timer(timeout, self.set_flush_timer, [timeout, True])`,
\* tms being the timers before.  Any other step leaves the timers alone.
Schedule(t, tms) ==
    IF task'[t].kind = "set_flush_timer" /\ task'[t].pc = "done"
    THEN /\ timers' = NewTimer(tms)
         /\ timer' = Len(tms) + 1
    ELSE /\ timers' = tms
         /\ timer' = timer

\* ---------------------------------------------------------------- actions
\* The state of an emitter just constructed (lines 105-116), its
\* configuration apart.
Fresh ==
    /\ buffer = <<>>
    /\ bytes_queued = IF byte_limit = None THEN None ELSE 0
    /\ lock = [locked |-> FALSE, waiters |-> <<>>]
    /\ task = [t \in Tasks |-> IdleTask]
    /\ ncalls = 0
    /\ requests = <<>>
    /\ callbacks = <<>>
    /\ flushes = <<>>
    /\ timer = None
    /\ timers = <<>>
    /\ disarmed = FALSE
    /\ probe = [op |-> "none"]
    /\ answer = Return("")
    /\ heap = <<>>
    /\ emitters = <<>>

Init ==
    /\ method \in METHODS
    /\ buffer_size \in 1..MaxBufferSize
    /\ byte_limit \in {None, MaxByteLimit}
    /\ on_success \in BOOLEAN
    /\ on_failure \in BOOLEAN
    /\ client_session = None
    /\ Fresh

\* await emitter.input(payload), with len(str(payload)) = n.
Input(t, n) ==
    /\ t = ncalls + 1
    /\ Call(t, [IdleTask EXCEPT !.kind = "input", !.payload = Payload(t, n)])
    /\ UNCHANGED <<timing, study, instances>>

\* await emitter.flush()
Flush(t) ==
    /\ t = ncalls + 1
    /\ Call(t, [IdleTask EXCEPT !.kind = "flush"])
    /\ UNCHANGED <<timing, study, instances>>

\* await emitter.sync_flush(): `await Emitter.flush(self)` between two logs.
SyncFlush(t) ==
    /\ t = ncalls + 1
    /\ Call(t, [IdleTask EXCEPT !.kind = "sync_flush"])
    /\ UNCHANGED <<timing, study, instances>>

\* A task queued on the lock is woken after a release and enters.
Resume(t) ==
    /\ task[t].pc = "waiting"
    /\ ~lock.locked
    /\ lock.waiters # <<>>
    /\ Head(lock.waiters) = t
    /\ Enter(t, task[t], [locked |-> TRUE, waiters |-> Tail(lock.waiters)])
    /\ Schedule(t, timers)
    /\ UNCHANGED <<ncalls, config, disarmed, study, instances>>

\* Faulty variant of Failed: every event goes to failure_events.
Failed_always(tk, ok) ==
    IF method = "post"
    THEN tk.failure_events \o tk.evts
    ELSE Append(tk.failure_events, tk.evts[tk.i])

\* success_events after the request the task (record tk) waited on has
\* returned ok: `success_events += evts` (post), `+= [evt]` (get).
Succeeded(tk, ok) ==
    IF method = "post"
    THEN (IF ok THEN tk.success_events \o tk.evts ELSE tk.success_events)
    ELSE (IF ok THEN Append(tk.success_events, tk.evts[tk.i]) ELSE tk.success_events)

\* failure_events after that request: `failure_events += evts` (post),
\* `+= [evt]` (get).
Failed(tk, ok) ==
    IF method = "post"
    THEN (IF ok THEN tk.failure_events ELSE tk.failure_events \o tk.evts)
    ELSE (IF ok THEN tk.failure_events ELSE Append(tk.failure_events, tk.evts[tk.i]))

\* The index in requests of the request task t is waiting on.
Pending(t) ==
    CHOOSE k \in 1..Len(requests) :
        /\ requests[k].task = t
        /\ \A j \in (k + 1)..Len(requests) : requests[j].task # t

\* The awaited request of task t ends with r: the rest of http_post /
\* http_get, then of send_events (next GET request, or the callbacks) and
\* of _flush_unsafe (the reset), then the release of the lock.
HttpReturn(t, r) ==
    /\ task[t].pc = "http"
    /\ LET tk == task[t]
           ok == request_succeeded(r)
           reqs == [requests EXCEPT ![Pending(t)].result = Classified(r),
                                    ![Pending(t)].session = Closed(@)]
       IN  IF ~Returns(r)
           THEN /\ task' = [task EXCEPT ![t] = Raised(tk)]
                /\ lock' = Release(lock)
                /\ requests' = reqs
                /\ UNCHANGED <<buffer, bytes_queued, callbacks, flushes>>
           ELSE LET succ == Succeeded(tk, ok)
                    fail == Failed(tk, ok)
                IN  IF method = "get" /\ tk.i < Len(tk.evts)
                    THEN /\ requests' = Append(reqs,
                               GetRequest(t, tk.evts[tk.i + 1], Session(reqs)))
                         /\ task' = [task EXCEPT ![t] =
                               [tk EXCEPT !.i = tk.i + 1,
                                          !.success_events = succ,
                                          !.failure_events = fail]]
                         /\ UNCHANGED <<buffer, bytes_queued, lock, callbacks, flushes>>
                    ELSE /\ requests' = reqs
                         /\ callbacks' = callbacks \o Invoke(t, succ, fail)
                         /\ buffer' = <<>>
                         /\ bytes_queued' = ResetBytes(bytes_queued)
                         /\ lock' = Release(lock)
                         /\ task' = [task EXCEPT ![t] = Done(tk)]
                         /\ UNCHANGED flushes
    /\ Schedule(t, timers)
    /\ UNCHANGED <<ncalls, config, disarmed, study, instances>>

\* await emitter.set_flush_timer(timeout, flush_now), called by the
\* application.
SetFlushTimer(t, now) ==
    /\ t = ncalls + 1
    /\ t \in Tasks
    /\ LET tk == [IdleTask EXCEPT !.kind = "set_flush_timer", !.flush_now = now]
       IN  IF now
           THEN Call(t, tk)
           ELSE /\ task' = [task EXCEPT ![t] = Done(tk)]
                /\ ncalls' = t
                /\ UNCHANGED <<config, buffer, bytes_queued, lock, requests,
                               callbacks, flushes>>
    /\ Schedule(t, timers)
    /\ disarmed' = FALSE
    /\ UNCHANGED <<study, instances>>

\* The pending timer k fires: its callback, set_flush_timer(timeout, True),
\* starts as a task of its own.
Tick(k) ==
    /\ k \in 1..Len(timers)
    /\ timers[k] = "pending"
    /\ ncalls + 1 \in Tasks
    /\ Call(ncalls + 1,
            [IdleTask EXCEPT !.kind = "set_flush_timer", !.flush_now = TRUE])
    /\ Schedule(ncalls + 1, [timers EXCEPT ![k] = "fired"])
    /\ UNCHANGED <<disarmed, study, instances>>

\* A cancel_flush_timer that leaves the timer alone.
Cancelled_not == timers

\* The timers after lines 323-324 of cancel_flush_timer.
Cancelled ==
    IF timer # None THEN TimerCancel(timers, timer) ELSE timers

\* emitter.cancel_flush_timer()
CancelFlushTimer ==
    /\ timers' = Cancelled
    /\ disarmed' = TRUE
    /\ UNCHANGED <<config, buffer, bytes_queued, lock, task, ncalls, requests,
                   callbacks, flushes, timer, study, instances>>

Next ==
    \/ \E t \in Tasks, n \in PayloadLens : Input(t, n)
    \/ \E t \in Tasks : Flush(t)
    \/ \E t \in Tasks : SyncFlush(t)
    \/ \E t \in Tasks : Resume(t)
    \/ \E t \in Tasks, r \in Responses : HttpReturn(t, r)

Spec == Init /\ [][Next]_vars

\* The emitter with its periodic flush in use as well.
NextTimer ==
    \/ Next
    \/ \E t \in Tasks, now \in BOOLEAN : SetFlushTimer(t, now)
    \/ \E k \in 1..NumTasks : Tick(k)
    \/ CancelFlushTimer

\* An emitter constructed without byte limit and with both callbacks.
InitTimer ==
    /\ Init
    /\ byte_limit = None
    /\ on_success
    /\ on_failure

SpecTimer == InitTimer /\ [][NextTimer]_vars

\* ----------------------------------------- the emitter and sessions
\* An emitter constructed with or without client_session, no byte limit,
\* both callbacks.
InitSession ==
    /\ method \in METHODS
    /\ buffer_size \in 1..MaxBufferSize
    /\ byte_limit = None
    /\ on_success = TRUE
    /\ on_failure = TRUE
    /\ client_session \in {None, CallerSession}
    /\ Fresh

SpecSession == InitSession /\ [][Next]_vars

\* ------------------------------------------ two emitters side by side
\* The objects of the program are kept in a heap, indexed by address, and
\* an attribute that refers to an object holds its address: so it shows
\* which objects two instances have in common.  An object no reference
\* leads to any more gives its address back.
Blank == [kind |-> "none", stm |-> None, strs |-> FALSE, items |-> <<>>,
          locked |-> FALSE, state |-> "none"]

\* A mapping (an event payload) with or without the key stm, its values
\* as given or stringified.
DictObj(stm, strs) == [Blank EXCEPT !.kind = "dict", !.stm = stm, !.strs = strs]
\* A list of (the addresses of) items.
ListObj(items) == [Blank EXCEPT !.kind = "list", !.items = items]
\* asyncio.Lock()
LockObj == [Blank EXCEPT !.kind = "lock"]
\* Timer(timeout, callback, args)
TimerObj == [Blank EXCEPT !.kind = "timer", !.state = "pending"]

\* The mapping of the caller: the first object of the heap.
Mappings == {1}
Others(e) == 3 - e

Free(h) == {a \in DOMAIN h : h[a].kind = "none"}
\* The address of the next object made.
Alloc(h) == CHOOSE a \in Free(h) : \A b \in Free(h) : a <= b

\* Faulty variant of NewEmitter: the lock is made once for the class, and
\* every instance after the first refers to that one.
NewEmitter_class_lock(h, meth, size, limit) ==
    LET buf == Alloc(h)
        h1 == [h EXCEPT ![buf] = ListObj(<<>>)]
        locks == {a \in DOMAIN h : h[a].kind = "lock"}
        lk == IF locks = {} THEN Alloc(h1) ELSE CHOOSE a \in locks : TRUE
    IN  [heap |-> [h1 EXCEPT ![lk] = LockObj],
         self |-> [method |-> meth, buffer_size |-> size, byte_limit |-> limit,
                   buffer |-> buf,
                   bytes_queued |-> IF limit = None THEN None ELSE 0,
                   lock |-> lk, timer |-> None, flight |-> "none"]]

\* Emitter.__init__ (lines 96-116) with the heap h: `self.buffer = []` and
\* `self.lock = asyncio.Lock()` make a new list and a new lock.  flight
\* is the kind of the call whose flush awaits its HTTP response.
NewEmitter(h, meth, size, limit) ==
    LET buf == Alloc(h)
        h1 == [h EXCEPT ![buf] = ListObj(<<>>)]
        lk == Alloc(h1)
    IN  [heap |-> [h1 EXCEPT ![lk] = LockObj],
         self |-> [method |-> meth, buffer_size |-> size, byte_limit |-> limit,
                   buffer |-> buf,
                   bytes_queued |-> IF limit = None THEN None ELSE 0,
                   lock |-> lk, timer |-> None, flight |-> "none"]]

\* Two emitters, each get or post, with the same buffer_size and
\* byte_limit, and a mapping of their caller.
InitTwo ==
    /\ method = "post"
    /\ buffer_size = 1
    /\ byte_limit = None
    /\ on_success = TRUE
    /\ on_failure = TRUE
    /\ client_session = None
    /\ buffer = <<>>
    /\ bytes_queued = None
    /\ lock = [locked |-> FALSE, waiters |-> <<>>]
    /\ task = [t \in Tasks |-> IdleTask]
    /\ ncalls = 0
    /\ requests = <<>>
    /\ callbacks = <<>>
    /\ flushes = <<>>
    /\ timer = None
    /\ timers = <<>>
    /\ disarmed = FALSE
    /\ probe = [op |-> "none"]
    /\ answer = Return("")
    /\ \E m1, m2 \in METHODS :
         LET h0 == [a \in 1..MaxHeap |->
                       IF a \in Mappings THEN DictObj(None, FALSE) ELSE Blank]
             e1 == NewEmitter(h0, m1, TwoBufferSize, MaxByteLimit)
             e2 == NewEmitter(e1.heap, m2, TwoBufferSize, MaxByteLimit)
         IN  /\ heap = e2.heap
             /\ emitters = <<e1.self, e2.self>>

\* len(str(payload)) of the mapping d.
StrLen2(d) == IF d.stm = None THEN 2 ELSE 4

\* Emitter.reached_limit of the instance self.
reached_limit2(self, h) ==
    IF self.byte_limit = None
    THEN Len(h[self.buffer].items) >= self.buffer_size
    ELSE (self.bytes_queued >= self.byte_limit
          \/ Len(h[self.buffer].items) >= self.buffer_size)

\* The addresses in the list at address l.
ItemsOf(h, l) == {h[l].items[i] : i \in DOMAIN h[l].items}

\* attach_sent_timestamp(events): every mapping of the list at address
\* evts gets the key stm, in place.
Stamped(h, evts, c) ==
    [a \in DOMAIN h |->
        IF a \in ItemsOf(h, evts)
        THEN [h[a] EXCEPT !.stm = (c \div 1000) * 1000]
        ELSE h[a]]

\* Lines 192-194 of _flush_unsafe and the release of the lock:
\* `self.buffer = []` binds the attribute to a new list; the old list and
\* the copies in it are referred to no more.
Reset(h, self) ==
    LET gone == {self.buffer} \cup (ItemsOf(h, self.buffer) \ Mappings)
        h1 == [a \in DOMAIN h |-> IF a \in gone THEN Blank ELSE h[a]]
        new == Alloc(h1)
    IN  [heap |-> [h1 EXCEPT ![new] = ListObj(<<>>), ![self.lock].locked = FALSE],
         self |-> [self EXCEPT !.buffer = new,
                               !.bytes_queued = IF @ # None THEN 0 ELSE @,
                               !.flight = "none"]]

\* Line 316 of set_flush_timer: `self.timer = Timer(...)`.  The timer the
\* attribute referred to lives on while it is pending.
Rearmed(w) ==
    LET old == w.self.timer
        h1 == IF old # None /\ w.heap[old].state # "pending"
              THEN [w.heap EXCEPT ![old] = Blank] ELSE w.heap
        new == Alloc(h1)
    IN  [heap |-> [h1 EXCEPT ![new] = TimerObj],
         self |-> [w.self EXCEPT !.timer = new]]

\* _flush_unsafe of the instance self, which holds its lock, up to the
\* first HTTP request (or to its end when the buffer is empty), in a call
\* of the given kind, the clock reading c.
StartFlush(h, self, kind, c) ==
    IF Len(h[self.buffer].items) > 0
    THEN [heap |-> Stamped(h, self.buffer, c),
          self |-> [self EXCEPT !.flight = kind]]
    ELSE IF kind = "tick" THEN Rearmed(Reset(h, self)) ELSE Reset(h, self)

\* The instance e and the heap become those of w.
Becomes(e, w) ==
    /\ heap' = w.heap
    /\ emitters' = [emitters EXCEPT ![e] = w.self]
    /\ UNCHANGED <<config, buffer, bytes_queued, lock, task, ncalls, requests,
                   callbacks, flushes, timing, study>>

Unlocked(e) == ~heap[emitters[e].lock].locked

\* Faulty variant of Buffered: a post emitter stringifies the values of
\* the mapping it was given and buffers that mapping itself.
Buffered_in_place(h, meth, m) ==
    IF meth = "post"
    THEN [heap |-> [h EXCEPT ![m].strs = TRUE], item |-> m]
    ELSE [heap |-> h, item |-> m]

\* Lines 161-164 of input, m the address of the mapping given: what is
\* appended to the buffer, and the heap then.  For post it is a new
\* mapping, `{key: str(payload[key]) for key in payload}`; for get it is
\* the mapping given.
Buffered(h, meth, m) ==
    IF meth = "post"
    THEN [heap |-> [h EXCEPT ![Alloc(h)] = DictObj(h[m].stm, TRUE)],
          item |-> Alloc(h)]
    ELSE [heap |-> h, item |-> m]

\* await emitters[e].input(m), m a mapping of the caller.
InputTwo(e, m) ==
    /\ Unlocked(e)
    /\ Free(heap) # {}
    /\ Len(heap[emitters[e].buffer].items) < emitters[e].buffer_size
    /\ LET self == emitters[e]
           byts == IF self.bytes_queued # None
                   THEN self.bytes_queued + StrLen2(heap[m])
                   ELSE self.bytes_queued
           b == Buffered(heap, self.method, m)
           h2 == [b.heap EXCEPT ![self.buffer].items = Append(@, b.item),
                            ![self.lock].locked = TRUE]
           s2 == [self EXCEPT !.bytes_queued = byts]
       IN  IF reached_limit2(s2, h2)
           THEN \E c \in ClockReadings :
                   Becomes(e, StartFlush(h2, s2, "input", c))
           ELSE Becomes(e, [heap |-> [h2 EXCEPT ![self.lock].locked = FALSE],
                            self |-> s2])

\* await emitters[e].flush()
FlushTwo(e) ==
    /\ Unlocked(e)
    /\ \E c \in ClockReadings :
         Becomes(e, StartFlush([heap EXCEPT ![emitters[e].lock].locked = TRUE],
                               emitters[e], "flush", c))

\* The requests of the flush in flight on instance e have ended: the
\* last with a return of http_post / http_get, or with an exception.
ReturnTwo(e, returns) ==
    /\ emitters[e].flight # "none"
    /\ IF returns
       THEN IF emitters[e].flight = "tick"
            THEN Becomes(e, Rearmed(Reset(heap, emitters[e])))
            ELSE Becomes(e, Reset(heap, emitters[e]))
       ELSE Becomes(e, [heap |-> [heap EXCEPT ![emitters[e].lock].locked = FALSE],
                        self |-> [emitters[e] EXCEPT !.flight = "none"]])

\* await emitters[e].set_flush_timer(timeout), on an instance that has
\* no timer pending and no tick in flight.
ArmTwo(e) ==
    /\ Free(heap) # {}
    /\ emitters[e].flight # "tick"
    /\ emitters[e].timer # None => heap[emitters[e].timer].state # "pending"
    /\ Becomes(e, Rearmed([heap |-> heap, self |-> emitters[e]]))

\* The timer of instance e fires: set_flush_timer(timeout, True).
TickTwo(e) ==
    /\ emitters[e].timer # None
    /\ heap[emitters[e].timer].state = "pending"
    /\ Unlocked(e)
    /\ \E c \in ClockReadings :
         Becomes(e, StartFlush([heap EXCEPT ![emitters[e].timer].state = "fired",
                                            ![emitters[e].lock].locked = TRUE],
                               emitters[e], "tick", c))

\* emitters[e].cancel_flush_timer()
DisarmTwo(e) ==
    /\ emitters[e].timer # None
    /\ Becomes(e, [heap |-> [heap EXCEPT ![emitters[e].timer].state =
                                IF @ = "pending" THEN "cancelled" ELSE @],
                   self |-> emitters[e]])

NextTwo ==
    \/ \E e \in {1, 2}, m \in Mappings : InputTwo(e, m)
    \/ \E e \in {1, 2} : FlushTwo(e)
    \/ \E e \in {1, 2}, returns \in BOOLEAN : ReturnTwo(e, returns)
    \/ \E e \in {1, 2} : ArmTwo(e)
    \/ \E e \in {1, 2} : TickTwo(e)
    \/ \E e \in {1, 2} : DisarmTwo(e)

SpecTwo == InitTwo /\ [][NextTwo]_vars

\* ------------------------------------- the emitter with its defaults
\* self.buffer_size for the argument buffer_size (lines 99-104).
default_buffer_size(arg, meth) ==
    IF arg = None
    THEN (IF meth = "post" THEN DEFAULT_MAX_LENGTH ELSE 1)
    ELSE arg

\* Emitter(endpoint, method=...) with no buffer_size and no byte_limit.
InitDefault ==
    /\ method \in METHODS
    /\ buffer_size = default_buffer_size(None, method)
    /\ byte_limit = None
    /\ on_success = TRUE
    /\ on_failure = TRUE
    /\ client_session = None
    /\ Fresh

\* The number of input calls made by the one caller of InputNext.
NumInputs == task[1].payload.id

\* await emitter.input(payload) by one caller that awaits each call (and
\* catches what it raises) before it makes the next.
InputNext ==
    /\ task[1].pc \in {"idle", "done", "raised"}
    /\ NumInputs < MaxInputs
    /\ Len(requests) < MaxRequests
    /\ Call(1, [IdleTask EXCEPT !.kind = "input",
                                !.payload = Payload(NumInputs + 1, 2)])
    /\ UNCHANGED <<timing, study, instances>>

NextDefault ==
    \/ InputNext
    \/ \E r \in Responses : HttpReturn(1, r)

SpecDefault == InitDefault /\ [][NextDefault]_vars

\* ------------------------------------ the periodic flush left running
\* The application calls set_flush_timer once and never cancel_flush_timer;
\* one caller makes input calls meanwhile.  Task 1 is the caller of input,
\* task 2 the call of set_flush_timer by the application, task 3 the
\* callback of the timer, which runs again at every tick.

\* await emitter.set_flush_timer(timeout, flush_now), once.
ArmNext(now) ==
    /\ task[2].pc = "idle"
    /\ Len(requests) < MaxRequests
    /\ LET tk == [IdleTask EXCEPT !.kind = "set_flush_timer", !.flush_now = now]
       IN  IF now
           THEN Call(2, tk)
           ELSE /\ task' = [task EXCEPT ![2] = Done(tk)]
                /\ ncalls' = 2
                /\ UNCHANGED <<config, buffer, bytes_queued, lock, requests,
                               callbacks, flushes>>
    /\ Schedule(2, timers)
    /\ UNCHANGED <<disarmed, study, instances>>

\* The pending timer k fires: set_flush_timer(timeout, True) runs as the
\* callback task.
TickNext(k) ==
    /\ k \in 1..Len(timers)
    /\ timers[k] = "pending"
    /\ task[3].pc \in {"idle", "done", "raised"}
    /\ Len(timers) < MaxLive
    /\ Len(requests) < MaxRequests
    /\ Call(3, [IdleTask EXCEPT !.kind = "set_flush_timer", !.flush_now = TRUE])
    /\ Schedule(3, [timers EXCEPT ![k] = "fired"])
    /\ UNCHANGED <<disarmed, study, instances>>

\* An input call of the one caller, among the first MaxLive.
InputLive == NumInputs < MaxLive /\ InputNext

NextLive ==
    \/ InputLive
    \/ \E now \in BOOLEAN : ArmNext(now)
    \/ \E k \in 1..MaxLive : TickNext(k)
    \/ \E t \in Tasks : Resume(t)
    \/ \E t \in Tasks, r \in Responses : HttpReturn(t, r)

\* The loop runs every callback that is due, wakes the waiter of a free
\* lock, and no request stays without an end.
FairLive ==
    /\ WF_vars(\E k \in 1..MaxLive : TickNext(k))
    /\ WF_vars(\E t \in Tasks : Resume(t))
    /\ WF_vars(\E t \in Tasks, r \in Responses : HttpReturn(t, r))

\* An emitter that buffers MaxBufferSize events, without byte limit.
InitLive == InitTimer /\ buffer_size = MaxBufferSize

SpecLive == InitLive /\ [][NextLive]_vars /\ FairLive

\* -------------------------------------------- flush and sync_flush
\* One caller makes input calls (task 1); the application calls flush
\* once (task 2) and sync_flush once (task 3), in either order.
FlushOnce ==
    /\ task[2].pc = "idle"
    /\ Call(2, [IdleTask EXCEPT !.kind = "flush"])
    /\ UNCHANGED <<timing, study, instances>>

\* await emitter.sync_flush(): `await Emitter.flush(self)` (line 255).
SyncFlushOnce ==
    /\ task[3].pc = "idle"
    /\ Call(3, [IdleTask EXCEPT !.kind = "sync_flush"])
    /\ UNCHANGED <<timing, study, instances>>

NextSync ==
    \/ InputLive
    \/ FlushOnce
    \/ SyncFlushOnce
    \/ \E t \in Tasks : Resume(t)
    \/ \E t \in Tasks, r \in Responses : HttpReturn(t, r)

\* An emitter that buffers MaxBufferSize events, with both callbacks,
\* with or without byte limit.
InitSync ==
    /\ Init
    /\ buffer_size = MaxBufferSize
    /\ on_success
    /\ on_failure

SpecSync == InitSync /\ [][NextSync]_vars

\* ------------------------------------------- callbacks that raise
\* The callback invocations called, up to and with the one of the
\* callback `name`, which raises: what follows it is not invoked.
Until(called, name) ==
    SubSeq(called, 1, CHOOSE k \in 1..Len(called) : called[k].name = name)

\* The last awaited request of the flush of task t ends with r, which
\* the wrapper returns, and the callback `name`, invoked at lines
\* 295-298, raises: the exception leaves send_events, _flush_unsafe
\* before its reset (lines 192-194), the `async with self.lock` block,
\* which releases the lock, and the call.
CallbackRaises(t, r, name) ==
    /\ task[t].pc = "http"
    /\ Returns(r)
    /\ method = "get" => task[t].i = Len(task[t].evts)
    /\ LET tk == task[t]
           ok == request_succeeded(r)
           called == Invoke(t, Succeeded(tk, ok), Failed(tk, ok))
       IN  /\ \E k \in 1..Len(called) : called[k].name = name
           /\ callbacks' = callbacks \o Until(called, name)
           /\ requests' = [requests EXCEPT ![Pending(t)].result = Classified(r),
                                           ![Pending(t)].session = Closed(@)]
           /\ lock' = Release(lock)
           /\ task' = [task EXCEPT ![t] = Raised(tk)]
    /\ UNCHANGED <<buffer, bytes_queued, flushes, ncalls, config, timing, study,
                   instances>>

NextRaise ==
    \/ \E t \in Tasks : Input(t, 2)
    \/ \E t \in Tasks : Flush(t)
    \/ \E t \in Tasks : Resume(t)
    \/ \E t \in Tasks, r \in Responses : HttpReturn(t, r)
    \/ \E t \in Tasks, r \in Responses, name \in {"on_success", "on_failure"} :
            CallbackRaises(t, r, name)

\* An emitter that flushes at every input, with both callbacks, with or
\* without byte limit.
InitRaise ==
    /\ Init
    /\ buffer_size = 1
    /\ on_success
    /\ on_failure

SpecRaise == InitRaise /\ [][NextRaise]_vars

\* The same calls, the event loop waking the waiter of a free lock and
\* no request staying without an end.
FairSync ==
    /\ WF_vars(\E t \in Tasks : Resume(t))
    /\ WF_vars(\E t \in Tasks, r \in Responses : HttpReturn(t, r))

SpecFair == InitSync /\ [][NextSync]_vars /\ FairSync

\* ------------------------------------------- the functions on their own
\* The arguments tried.
Statuses == 100..599
Outcomes == [type : {"status"}, status : Statuses]
            \cup [type : {"ClientError", "TimeoutError"}, status : {0}]
EndpointArgs == {"", "example.com", "c.io"}
ProtocolArgs == {"http", "https", "ftp"}
PortArgs == {None, 0, 80, 443, 8080}
MethodArgs == {"get", "post", "put"}

\* One request of http_post / http_get that ends with r.
Request(r) ==
    /\ probe' = [op |-> "request", r |-> r]
    /\ answer' = IF Returns(r) THEN Return(Classified(r)) ELSE Raise(r.type)
    /\ UNCHANGED <<config, buffer, bytes_queued, lock, task, ncalls, requests,
                   callbacks, flushes, timing, instances>>

\* Emitter.as_collector_uri(endpoint, protocol, port, method)
AsCollectorUri(endpoint, protocol, port, meth) ==
    /\ probe' = [op |-> "as_collector_uri", endpoint |-> endpoint,
                 protocol |-> protocol, port |-> port, method |-> meth]
    /\ answer' = as_collector_uri(endpoint, protocol, port, meth)
    /\ UNCHANGED <<config, buffer, bytes_queued, lock, task, ncalls, requests,
                   callbacks, flushes, timing, instances>>

\* Emitter(endpoint, protocol, port, method)
Construct(endpoint, protocol, port, meth) ==
    /\ probe' = [op |-> "Emitter", endpoint |-> endpoint,
                 protocol |-> protocol, port |-> port, method |-> meth]
    /\ answer' = Emitter_init(endpoint, protocol, port, meth)
    /\ UNCHANGED <<config, buffer, bytes_queued, lock, task, ncalls, requests,
                   callbacks, flushes, timing, instances>>

\* Emitter.attach_sent_timestamp(events) on two payloads, time.time()
\* read as c milliseconds; the answer is the list as it is afterwards.
AttachSentTimestamp(c) ==
    /\ probe' = [op |-> "attach_sent_timestamp", c |-> c]
    /\ answer' = Return(attach_sent_timestamp(<<Payload(1, 2), Payload(2, 4)>>, c))
    /\ UNCHANGED <<config, buffer, bytes_queued, lock, task, ncalls, requests,
                   callbacks, flushes, timing, instances>>

NextStatic ==
    \/ \E r \in Outcomes : Request(r)
    \/ \E c \in ClockReadings : AttachSentTimestamp(c)
    \/ \E e \in EndpointArgs, p \in ProtocolArgs, port \in PortArgs,
          m \in MethodArgs : AsCollectorUri(e, p, port, m)
    \/ \E e \in EndpointArgs, p \in ProtocolArgs, port \in PortArgs,
          m \in MethodArgs : Construct(e, p, port, m)

\* One emitter, on which nothing else is called.
InitStatic ==
    /\ InitTimer
    /\ method = "post"
    /\ buffer_size = 1

SpecStatic == InitStatic /\ [][NextStatic]_vars

\* ---------------------------------------------------------- model sanity
\* send_events works on the list object self.buffer itself (evts is an
\* alias, line 191); the task record keeps it as evts.  While a flush is in
\* flight the two are the same list, and the lock is held by that flush.
EvtsIsBuffer ==
    \A t \in Tasks :
        task[t].pc = "http" =>
            /\ task[t].evts = buffer
            /\ task[t].i \in 1..Len(buffer)
            /\ lock.locked

\* bytes_queued is None exactly when no byte limit is configured, and the
\* lock's queue holds exactly the waiting tasks, in call order.
StateOK ==
    /\ (bytes_queued = None) <=> (byte_limit = None)
    /\ ncalls \in 0..NumTasks
    /\ Range(lock.waiters) = {t \in Tasks : task[t].pc = "waiting"}
    /\ \A i, j \in 1..Len(lock.waiters) :
            i < j => lock.waiters[i] < lock.waiters[j]
    /\ \A t \in Tasks : task[t].pc = "idle" <=> t > ncalls

\* ------------------------------------------------------- claim vocabulary
Ended == {"done", "raised"}

\* In this step task t gets past `async with self.lock` (at once on its
\* call, or when woken from the lock's queue) and runs the body.
Enters(t) ==
    /\ task[t].pc \in {"idle", "waiting"}
    /\ task'[t].pc \notin {"idle", "waiting"}

\* Task t is suspended inside a flush, waiting for an HTTP response.
InFlush(t) == task[t].pc = "http"

FlushesBy(t) == SelectSeq(flushes, LAMBDA f : f.task = t)

\* The callback invocations of task t: which callback, its arguments.
CallbacksBy(t) ==
    LET cs == SelectSeq(callbacks, LAMBDA c : c.task = t)
    IN  [k \in 1..Len(cs) |->
            [task |-> cs[k].task, name |-> cs[k].name, count |-> cs[k].count,
             arg |-> cs[k].arg]]

RequestsBy(t) == SelectSeq(requests, LAMBDA r : r.task = t)

\* The ids of the events a request carries.
Carried(r) == {r.body.data[i].id : i \in 1..Len(r.body.data)}

\* The flush record of a threshold flush started by input call t.
ThresholdFlush(t) == [task |-> t, ids |-> Append(Ids(buffer), t)]

RECURSIVE SumLens(_)
\* The sum of len(str(payload)) over the payloads of calls 1..k.
SumLens(k) == IF k = 0 THEN 0 ELSE StrLen(task[k].payload) + SumLens(k - 1)

\* The events of the GET requests of task t that ended with a result in
\* `results`, in request order.
GetEvents(t, results) ==
    LET rs == SelectSeq(requests,
                LAMBDA r : r.task = t /\ r.verb = "get" /\ r.result \in results)
    IN  [i \in 1..Len(rs) |-> rs[i].body.data[1]]

\* ------------------------------------------------------------------ C1
\* C1: two input calls (made one after the other or concurrently) on an
\* emitter with buffer_size 1, so that each of them triggers a threshold
\* flush, make exactly two flushes between them once both have ended, and
\* each of the two events is in the batch of exactly one of the two.
C1_TwoFlushesDisjointBatches ==
    (/\ buffer_size = 1
     /\ task[1].kind = "input" /\ task[1].pc \in Ended
     /\ task[2].kind = "input" /\ task[2].pc \in Ended)
    => LET fl == SelectSeq(flushes, LAMBDA f : f.task \in {1, 2})
       IN  /\ Len(fl) = 2
           /\ \A e \in {1, 2} :
                Cardinality({k \in 1..Len(fl) : e \in Range(fl[k].ids)}) = 1

\* ------------------------------------------------------------------ C2
\* C2: at most one task is inside the critical section of input / flush
\* at any time, also while a flush waits for its HTTP response: no two
\* flushes are in flight together, the lock is held while one is, no flush
\* starts meanwhile, and the buffer does not change from the start of a
\* flush's dispatch until that very flush resets it (or ends with an
\* exception, leaving it as it is).
C2_MutualExclusion ==
    /\ [](/\ Cardinality({t \in Tasks : InFlush(t)}) <= 1
          /\ (\E t \in Tasks : InFlush(t)) => lock.locked)
    /\ [][\A t \in Tasks : InFlush(t) =>
            /\ flushes' = flushes
            /\ \/ buffer' = buffer
               \/ task'[t].pc = "done" /\ buffer' = <<>>]_vars

\* A flush is in flight while an input call waits on the lock.
C2_Witness ==
    \E t, u \in Tasks :
        /\ InFlush(t)
        /\ task[u].pc = "waiting"
        /\ task[u].kind = "input"

\* ------------------------------------------------------------------ C3
\* C3: an input call whose append brings the buffer length to buffer_size
\* or more starts exactly one flush in that call (of the whole buffer, the
\* new event included), and when such a call returns the buffer is empty
\* and the call has made exactly that one flush.
C3_ThresholdFlushOnce ==
    [][\A t \in Tasks :
        /\ (Enters(t) /\ task'[t].kind = "input"
                /\ Len(buffer) + 1 >= buffer_size)
            => /\ flushes' = Append(flushes, ThresholdFlush(t))
               /\ task'[t].pc = "http"
        /\ (task[t].kind = "input" /\ InFlush(t) /\ task'[t].pc = "done")
            => /\ Len(buffer') = 0
               /\ Len(SelectSeq(flushes', LAMBDA f : f.task = t)) = 1]_vars

\* An input call that met a count threshold of 2 or more has returned,
\* after one flush of buffer_size events, and the buffer is empty.
C3_Witness ==
    \E t \in Tasks :
        /\ task[t].kind = "input"
        /\ task[t].pc = "done"
        /\ buffer_size >= 2
        /\ Len(FlushesBy(t)) = 1
        /\ Len(FlushesBy(t)[1].ids) = buffer_size
        /\ buffer = <<>>

\* ------------------------------------------------------------------ C4
\* Calls 1..ncalls are all input calls and after none of them a threshold
\* (count, or bytes if configured) is met.
QuietInputs ==
    \A k \in 1..ncalls :
        /\ task[k].kind = "input"
        /\ k < buffer_size
        /\ byte_limit # None => SumLens(k) < byte_limit

\* C4: after n input calls on a fresh emitter, none of which meets the
\* count or the byte threshold, and no flush call, the buffer holds the n
\* events in order, every call has returned, and no HTTP request, flush or
\* callback has happened.
C4_BelowThresholdsOnlyBuffers ==
    QuietInputs =>
        /\ Len(buffer) = ncalls
        /\ Ids(buffer) = [i \in 1..ncalls |-> i]
        /\ \A k \in 1..ncalls : task[k].pc = "done"
        /\ requests = <<>>
        /\ flushes = <<>>
        /\ callbacks = <<>>

\* Two input calls below both a count and a byte threshold.
C4_Witness ==
    /\ QuietInputs
    /\ ncalls = 2
    /\ byte_limit # None
    /\ Len(buffer) = 2

\* ------------------------------------------------------------------ C5
\* C5: with a byte limit configured, an input call whose append brings the
\* byte count to byte_limit or more starts a flush in that call although
\* the buffer length is still below buffer_size.
C5_ByteLimitFlushes ==
    [][\A t \in Tasks :
        (/\ Enters(t)
         /\ task'[t].kind = "input"
         /\ byte_limit # None
         /\ bytes_queued + StrLen(task'[t].payload) >= byte_limit
         /\ Len(buffer) + 1 < buffer_size)
        => /\ flushes' = Append(flushes, ThresholdFlush(t))
           /\ task'[t].pc = "http"
           /\ Len(requests') = Len(requests) + 1]_vars

\* A flush started by an input call on the byte threshold, with fewer
\* than buffer_size events buffered.
C5_Witness ==
    \E t \in Tasks :
        /\ task[t].kind = "input"
        /\ InFlush(t)
        /\ byte_limit # None
        /\ bytes_queued >= byte_limit
        /\ Len(buffer) < buffer_size

C7_PostFailurePassesSerializedBatch ==
    \A k \in 1..Len(requests) :
        LET r == requests[k] IN
        (/\ r.verb = "post"
         /\ r.result = "failed"
         /\ on_failure
         /\ task[r.task].pc \in Ended)
        => /\ Len(CallbacksBy(r.task)) = 1
           /\ CallbacksBy(r.task)[1].name = "on_failure"
           /\ CallbacksBy(r.task)[1].count = 0
           /\ CallbacksBy(r.task)[1].arg.type = "str"
           /\ CallbacksBy(r.task)[1].arg = r.body

\* ------------------------------------------------------------------ C8
\* C8: in GET mode (both callbacks registered), for every ended flush in
\* which some requests succeeded and others failed, the callbacks of the
\* flush are on_success with the events whose request succeeded, in batch
\* order, then on_failure with the number of successes and the events
\* whose request failed, in batch order.
C8_GetPartialFailureRouting ==
    \A t \in Tasks :
        LET succ == GetEvents(t, {"ok"})
            fail == GetEvents(t, {"failed", "raised"})
        IN  (/\ method = "get"
             /\ on_success /\ on_failure
             /\ task[t].pc \in Ended
             /\ succ # <<>>
             /\ fail # <<>>)
            => CallbacksBy(t) =
                 << [task |-> t, name |-> "on_success", count |-> None,
                     arg |-> ListOf(succ)],
                    [task |-> t, name |-> "on_failure", count |-> Len(succ),
                     arg |-> ListOf(fail)] >>

\* ------------------------------------------------------------------ C9
\* C9: no call of input, flush or sync_flush ends with an exception,
\* whatever the HTTP call ends with (a status, a connection error, a
\* timeout); and every request that did not succeed is reported to
\* on_failure when that callback is registered.
C9_TransportFailureNeverRaised ==
    /\ \A t \in Tasks : task[t].pc # "raised"
    /\ \A k \in 1..Len(requests) :
        (/\ requests[k].result \notin {"ok", "pending"}
         /\ on_failure
         /\ task[requests[k].task].pc \in Ended)
        => \E i \in 1..Len(callbacks) :
            /\ callbacks[i].task = requests[k].task
            /\ callbacks[i].name = "on_failure"

\* ----------------------------------------------------------------- C10
\* C10: once the call of a flush whose request ended by the request
\* timeout has ended, the events of that request are no longer buffered,
\* were handed to on_failure (if registered) and are carried by no later
\* request.
C10_TimedOutFlushIsFailedFlush ==
    \A k \in 1..Len(requests) :
        LET r == requests[k] IN
        (r.result = "raised" /\ task[r.task].pc \in Ended)
        => /\ Carried(r) \cap Range(Ids(buffer)) = {}
           /\ on_failure =>
                \E i \in 1..Len(callbacks) :
                    /\ callbacks[i].task = r.task
                    /\ callbacks[i].name = "on_failure"
                    /\ Carried(r) \subseteq
                         {callbacks[i].arg.data[j].id :
                            j \in 1..Len(callbacks[i].arg.data)}
           /\ \A j \in (k + 1)..Len(requests) :
                Carried(requests[j]) \cap Carried(r) = {}


\* ------------------------------------------------- the periodic flush
\* The timers that wait to fire.
PendingTimers == {k \in DOMAIN timers : timers[k] = "pending"}

\* In this step a timer fires, which starts a timer-driven flush.
TimerFires == \E k \in PendingTimers : timers'[k] = "fired"

\* In this step a new Timer is scheduled.
TimerScheduled == Len(timers') > Len(timers)

\* The flushes made by calls of set_flush_timer, the application's and
\* the timers'.
TimedFlushes ==
    SelectSeq(flushes, LAMBDA f : task[f.task].kind = "set_flush_timer")

\* ------------------------------------------------------------------ C11
\* C11: once cancel_flush_timer has returned, and until the application
\* calls set_flush_timer again, no timer fires (no timer-driven flush
\* starts) and no new timer is scheduled, also when the cancellation
\* came while the flush of a tick was in flight.
C11_CancelStopsPeriodicFlush ==
    [][disarmed /\ disarmed' => ~TimerFires /\ ~TimerScheduled]_vars

\* ------------------------------------------------------------------ C12
\* The application has awaited set_flush_timer(interval, True), which
\* has returned or raised, and cancel_flush_timer has not been called since; the
\* calls before were inputs, so no other timer was ever armed.
Armed ==
    /\ ncalls >= 1
    /\ task[ncalls].kind = "set_flush_timer"
    /\ task[ncalls].flush_now
    /\ task[ncalls].pc \in Ended
    /\ \A t \in 1..(ncalls - 1) : task[t].kind = "input"
    /\ ~disarmed

\* What is left when the periodic flush has flushed once and is off:
\* one flush made by set_flush_timer, and the one timer cancelled (no
\* timer at all when the flush raised, which ends set_flush_timer before
\* its line 316).
FlushedOnceAndOff ==
    /\ Len(TimedFlushes) = 1
    /\ TimedFlushes[1].task = ncalls
    /\ timers = IF task[ncalls].pc = "done" THEN <<"cancelled">> ELSE <<>>

\* C12: set_flush_timer(interval, flush_now = True) followed at once by
\* cancel_flush_timer makes exactly one flush, the one before the timer
\* was scheduled, and leaves no timer that is pending or has fired: the
\* one timer scheduled is cancelled.
C12_ArmThenCancelFlushesOnce ==
    [][Armed /\ disarmed' => FlushedOnceAndOff']_vars

\* The scenario of C12 has happened, with events in the buffer when the
\* timer was armed.
C12_Witness ==
    /\ disarmed
    /\ FlushedOnceAndOff
    /\ timers = <<"cancelled">>
    /\ TimedFlushes[1].ids # <<>>
    /\ \A t \in 1..(ncalls - 1) : task[t].kind = "input"

\* ------------------------------------------------------------------ C13
\* C13: in every reachable state at most one flush timer of the emitter
\* is pending, also after set_flush_timer was called while a timer was
\* pending.
C13_AtMostOnePendingTimer == Cardinality(PendingTimers) <= 1


\* ------------------------------------------------------------------ C14
\* The byte counter after a reset: 0 if a byte limit is configured.
Zero == IF byte_limit = None THEN None ELSE 0

\* The buffer and the byte counter (when a byte limit is configured and
\* the bytes are counted) are reset together or not at all.
ResetTogether == byte_limit # None => ((buffer = <<>>) <=> (bytes_queued = 0))

\* C14: every flush of a non-empty buffer, whatever started it, ends with
\* the buffer empty and the byte counter zero, and in no state is one of
\* the two reset without the other.
C14_FlushResetsBufferAndBytes ==
    /\ [][\A t \in Tasks :
            InFlush(t) /\ task'[t].pc \in Ended
                => buffer' = <<>> /\ bytes_queued' = Zero]_vars
    /\ []ResetTogether


\* ------------------------------------------------------------------ C15
\* The events of the flush of task t whose request ended with a result in
\* `results`, in batch order: the whole batch of the one POST request, or
\* the events of the GET requests.
EventsOf(t, results) ==
    IF method = "post"
    THEN (IF \E k \in 1..Len(requests) :
                requests[k].task = t /\ requests[k].result \in results
          THEN requests[Pending(t)].body.data
          ELSE <<>>)
    ELSE GetEvents(t, results)

\* The invocations of the callback `name` made by the flush of task t.
Invocations(t, name) == SelectSeq(CallbacksBy(t), LAMBDA c : c.name = name)

\* C15: for every ended flush of a non-empty batch, on_success is invoked
\* once with the successful payloads if it is registered and some event
\* succeeded, and not at all otherwise; on_failure is invoked once, its
\* first argument the number of events that succeeded in the flush, if it
\* is registered and some event failed, and not at all otherwise.
C15_CallbacksIffRegisteredAndNeeded ==
    \A t \in Tasks :
        LET succ == EventsOf(t, {"ok"})
            fail == EventsOf(t, {"failed", "raised"})
        IN  task[t].pc \in Ended /\ RequestsBy(t) # <<>> =>
              /\ Invocations(t, "on_success") =
                   IF on_success /\ succ # <<>>
                   THEN <<[task |-> t, name |-> "on_success", count |-> None,
                           arg |-> ListOf(succ)]>>
                   ELSE <<>>
              /\ IF on_failure /\ fail # <<>>
                 THEN /\ Len(Invocations(t, "on_failure")) = 1
                      /\ Invocations(t, "on_failure")[1].count = Len(succ)
                 ELSE Invocations(t, "on_failure") = <<>>


\* ------------------------------------------------------------------ C16
\* C16: on_success is invoked for a flush only when every HTTP request of
\* the flush succeeded, so no flush invokes both on_success and on_failure.
C16_SuccessOnlyIfAllSucceeded ==
    \A t \in Tasks :
        Invocations(t, "on_success") # <<>> =>
            /\ \A k \in 1..Len(requests) :
                 requests[k].task = t => requests[k].result = "ok"
            /\ Invocations(t, "on_failure") = <<>>


\* ------------------------------------------------------------------ C17
\* C17: the events of a request that failed (by its status or by a
\* transport error) are carried by no later request, and once the flush
\* has ended they are not in the buffer, with or without on_failure.
C17_NeverRetries ==
    \A k \in 1..Len(requests) :
        requests[k].result \in {"failed", "raised"} =>
            /\ \A j \in (k + 1)..Len(requests) :
                 Carried(requests[j]) \cap Carried(requests[k]) = {}
            /\ task[requests[k].task].pc \in Ended =>
                 Range(Ids(buffer)) \cap Carried(requests[k]) = {}


\* ------------------------------------------------------------------ C18
\* C18: a request counts as succeeded iff it was answered with a status s,
\* 200 <= s < 400; with any other status, and with any transport-level
\* error, it counts as failed.
C18_SucceededIffGoodStatus ==
    probe.op = "request" =>
        /\ answer.raises = "none"
        /\ answer.value =
             IF probe.r.type = "status" /\ probe.r.status \in 200..399
             THEN "ok" ELSE "failed"

\* ------------------------------------------------------------------ C19
\* The decimal numerals of the ports tried.
Numeral(port) ==
    CASE port = 0 -> "0"
      [] port = 80 -> "80"
      [] port = 443 -> "443"
      [] port = 8080 -> "8080"

\* C19: for a non-empty host and the method get or post, as_collector_uri
\* returns protocol, "://", host, then ":" and the port if a port is
\* given, then the path, "/i" for get and
\* "/com.snowplowanalytics.snowplow/tp2" for post; so the two examples.
C19_CollectorUri ==
    (/\ probe.op = "as_collector_uri"
     /\ probe.endpoint # ""
     /\ probe.method \in {"get", "post"})
    => /\ answer = Return(
               probe.protocol \o "://" \o probe.endpoint
               \o (IF probe.port = None THEN "" ELSE ":" \o Numeral(probe.port))
               \o (IF probe.method = "get" THEN "/i"
                   ELSE "/com.snowplowanalytics.snowplow/tp2"))
       /\ probe = [op |-> "as_collector_uri", endpoint |-> "example.com",
                   protocol |-> "https", port |-> 443, method |-> "post"]
          => answer.value =
               "https://example.com:443/com.snowplowanalytics.snowplow/tp2"
       /\ probe = [op |-> "as_collector_uri", endpoint |-> "example.com",
                   protocol |-> "http", port |-> None, method |-> "get"]
          => answer.value = "http://example.com/i"

\* as_collector_uri was called with a host and the port 0.
C19_Witness ==
    /\ probe.op = "as_collector_uri"
    /\ probe.endpoint = "example.com"
    /\ probe.port = 0
    /\ probe.method = "post"
    /\ answer.raises = "none"

\* ------------------------------------------------------------------ C20
\* The arguments of the construction are valid.
ValidArgs ==
    /\ probe.protocol \in {"http", "https"}
    /\ probe.method \in {"get", "post"}
    /\ probe.endpoint # ""

C21_DefaultBufferSize ==
    /\ [](buffer_size = IF method = "get" THEN 1 ELSE 10)
    /\ [][NumInputs' = NumInputs + 1 =>
            IF method = "get" \/ NumInputs' % 10 = 0
            THEN Len(flushes') = Len(flushes) + 1
            ELSE flushes' = flushes]_vars


\* ------------------------------------------------------------------ C22
\* The sessions the emitter opened itself that are still open.
OpenOwnSessions ==
    {k \in 1..Len(requests) :
        requests[k].session.id # CallerSession /\ requests[k].session.open}

\* C22: with a session supplied by the caller every request uses that
\* session and the emitter never closes it; with none supplied every
\* request has a session of its own, which is closed once the request has
\* ended, with a good or a bad status, a caught error or an exception
\* that propagates.
C22_SessionScopedToCall ==
    \A k \in 1..Len(requests) :
        LET q == requests[k] IN
        IF client_session # None
        THEN q.session = [id |-> client_session, open |-> TRUE]
        ELSE /\ \A j \in 1..Len(requests) :
                  requests[j].session.id = q.session.id => j = k
             /\ q.session.id # CallerSession
             /\ q.session.open <=> q.result = "pending"

\* Requests on sessions of the emitter's own have ended in each of the
\* ways, and none of the sessions is open.
C22_Witness ==
    /\ client_session = None
    /\ {"ok", "failed", "raised"} \subseteq
         {requests[k].result : k \in 1..Len(requests)}
    /\ OpenOwnSessions = {}


\* ------------------------------------------------------------------ C23
\* This step is a call on (or the end of a flush of, or a tick of the
\* timer of) the instance e.
OnTwo(e) ==
    \/ \E m \in Mappings : InputTwo(e, m)
    \/ FlushTwo(e)
    \/ \E returns \in BOOLEAN : ReturnTwo(e, returns)
    \/ ArmTwo(e)
    \/ TickTwo(e)
    \/ DisarmTwo(e)

\* What can be seen of the instance e: its buffer with the content of
\* the mappings in it, its byte count, the state of its lock and of its
\* timer.
Seen(e) ==
    LET self == emitters[e]
        items == heap[self.buffer].items
    IN  [buffer |-> [i \in DOMAIN items |-> heap[items[i]]],
         bytes_queued |-> self.bytes_queued,
         locked |-> heap[self.lock].locked,
         timer |-> IF self.timer = None THEN "none" ELSE heap[self.timer].state]

\* The same, but of a mapping of the caller in the buffer only which
\* mapping it is, not what it holds.
Own(e) ==
    LET self == emitters[e]
        items == heap[self.buffer].items
    IN  [buffer |-> [i \in DOMAIN items |->
                        [ref |-> items[i],
                         obj |-> IF items[i] \in Mappings THEN Blank
                                 ELSE heap[items[i]]]],
         list |-> self.buffer,
         bytes_queued |-> self.bytes_queued,
         lock |-> self.lock,
         locked |-> heap[self.lock].locked,
         timer |-> IF self.timer = None THEN "none" ELSE heap[self.timer].state]

\* The lock of an instance is held only by a flush of that instance.
NeverBlockedByOther ==
    \A e \in {1, 2} : emitters[e].flight = "none" => Unlocked(e)

\* C23 (as stated): a call, a tick or the end of a flush on one emitter
\* leaves what can be seen of the other emitter as it was: its buffer,
\* its byte count, its lock and its timer; and a flush in flight on one
\* never blocks a call on the other.
C23_InstancesShareNothing ==
    /\ [][\A e \in {1, 2} : OnTwo(e) => Seen(Others(e))' = Seen(Others(e))]_vars
    /\ []NeverBlockedByOther

\* C23 (amended): a call, a tick or the end of a flush on one emitter
\* leaves the other emitter's buffer (the same mappings, in the same
\* order), byte count, lock and timer as they were, and a flush in
\* flight on one never blocks a call on the other; what a mapping holds
\* that the caller gave to both is not covered: it gets the key stm when
\* either emitter flushes it.
C23_InstancesShareOnlyCallerMappings ==
    /\ [][\A e \in {1, 2} : OnTwo(e) => Own(Others(e))' = Own(Others(e))]_vars
    /\ []NeverBlockedByOther

\* A flush is in flight on the first emitter while the second, unlocked,
\* holds in its buffer the mapping the first has stamped.
C23_Witness ==
    /\ emitters # <<>>
    /\ emitters[1].flight # "none"
    /\ emitters[2].flight = "none"
    /\ Unlocked(2)
    /\ emitters[1].method = "get"
    /\ heap[emitters[2].buffer].items = <<1>>
    /\ heap[1].stm # None


\* ------------------------------------------------------------------ C24
\* The event x has gone out in a request.
Sent(x) == \E k \in 1..Len(requests) : x \in Carried(requests[k])

\* No call has ended with an exception so far: every request has returned.
EveryCallReturned == \A t \in Tasks : task[t].pc # "raised"

\* The runs looked at end here.
Exhausted == Len(requests) >= MaxRequests \/ Len(timers) >= MaxLive

FlushKinds == {"flush", "sync_flush"}

\* The batch of the flush made by the call t.
Batch(t) == FlushesBy(t)[1].ids

\* The events evts as the flush of call t sees them: each by its place in
\* the batch, with what it holds.
Placed(t, evts) ==
    [i \in 1..Len(evts) |->
        [at |-> CHOOSE j \in 1..Len(Batch(t)) : Batch(t)[j] = evts[i].id,
         len |-> evts[i].len, vals |-> evts[i].vals, stm |-> evts[i].stm]]

\* What can be observed of the call t: how it ended, its requests and
\* their ends, the callbacks it invoked and their arguments.
Observed(t) ==
    [pc |-> task[t].pc,
     requests |-> [k \in 1..Len(RequestsBy(t)) |->
                     [verb |-> RequestsBy(t)[k].verb,
                      type |-> RequestsBy(t)[k].body.type,
                      events |-> Placed(t, RequestsBy(t)[k].body.data),
                      result |-> RequestsBy(t)[k].result]],
     callbacks |-> [k \in 1..Len(CallbacksBy(t)) |->
                     [name |-> CallbacksBy(t)[k].name,
                      count |-> CallbacksBy(t)[k].count,
                      type |-> CallbacksBy(t)[k].arg.type,
                      events |-> Placed(t, CallbacksBy(t)[k].arg.data)]]]

\* The flush of call 2 and the sync_flush of call 3 have ended, they
\* found as many events in the buffer, and the transport gave the same
\* outcomes to the requests of the one as to those of the other.
SameStart ==
    /\ task[2].pc \in Ended
    /\ task[3].pc \in Ended
    /\ Len(Batch(2)) = Len(Batch(3))
    /\ \A k \in 1..Len(RequestsBy(2)) :
            k <= Len(RequestsBy(3)) =>
                RequestsBy(2)[k].result = RequestsBy(3)[k].result

\* Every event of the batch of call t has gone out in a request of t that
\* has ended.
Dispatched(t) ==
    \A i \in 1..Len(Batch(t)) :
        \E k \in 1..Len(RequestsBy(t)) :
            /\ Batch(t)[i] \in Carried(RequestsBy(t)[k])
            /\ RequestsBy(t)[k].result # "pending"

\* C25: sync_flush does what flush does: like flush it takes as its
\* batch the buffer it finds under the lock, from as many events and with
\* the same transport outcomes it makes the same requests and callback
\* invocations and ends the same way, the buffer empty and the byte count
\* reset; and when sync_flush has returned, every event of its batch has
\* gone out in a request that has ended.
C25_SyncFlushIsFlush ==
    /\ [][\A t \in Tasks :
            Enters(t) /\ task'[t].kind \in FlushKinds =>
                flushes' = Append(flushes, [task |-> t, ids |-> Ids(buffer)])]_vars
    /\ [][\A t \in Tasks :
            task[t].kind \in FlushKinds /\ InFlush(t) /\ task'[t].pc = "done" =>
                buffer' = <<>> /\ bytes_queued' = Zero]_vars
    /\ [](SameStart => Observed(2) = Observed(3))
    /\ [](task[3].pc = "done" => Len(FlushesBy(3)) = 1 /\ Dispatched(3))

\* A flush and a sync_flush of one event each have both made a request,
\* with the same outcome.
C25_Witness ==
    /\ SameStart
    /\ task[3].pc = "done"
    /\ Len(Batch(3)) >= 1
    /\ Len(RequestsBy(3)) >= 1
    /\ Len(RequestsBy(2)) >= 1
    /\ Len(CallbacksBy(3)) >= 1


\* ------------------------------------------------------------------ C26
\* Every event a request carries has the key stm.
HasStm(r) == \A i \in 1..Len(r.body.data) : r.body.data[i].stm # NoStm

\* C26: a flush attaches stm to every payload before it makes a request,
\* and it resets the buffer and the byte count before it invokes a
\* callback: every callback finds the buffer empty and the byte count
\* zero.
C26_ResetBeforeCallbacks ==
    /\ \A k \in 1..Len(requests) : HasStm(requests[k])
    /\ \A k \in 1..Len(callbacks) :
            /\ callbacks[k].saw.buffer = <<>>
            /\ callbacks[k].saw.bytes_queued = Zero


\* ------------------------------------------------------------------ C27
\* The buffer as the call t, entering under the lock in this step, has
\* it when it decides to flush: with its own event when it is an input.
AtAcquisition(t) ==
    IF task'[t].kind = "input"
    THEN Append(Ids(buffer), task'[t].payload.id)
    ELSE Ids(buffer)

\* The k-th request of the flush of call t carries what it should of the
\* batch: all of it in one POST, its k-th event in a GET.
CarriesBatch(t, k) ==
    LET r == RequestsBy(t)[k]
    IN  IF r.verb = "post"
        THEN k = 1 /\ Ids(r.body.data) = Batch(t)
        ELSE k <= Len(Batch(t)) /\ Ids(r.body.data) = <<Batch(t)[k]>>

\* C27: the batch of a flush is the buffer as it is when the flush gets
\* the lock, all of it and in the order of the buffer; while the flush is
\* in flight the buffer does not change, and the requests of the flush
\* carry the events of that batch, in its order.
C27_BatchIsBufferSnapshot ==
    /\ [][\A t \in Tasks :
            Enters(t) /\ Len(flushes') > Len(flushes) =>
                /\ flushes' = Append(flushes, [task |-> t, ids |-> AtAcquisition(t)])
                /\ InFlush(t)' => Ids(buffer') = AtAcquisition(t)
                                  /\ task'[t].evts = buffer']_vars
    /\ [][\A t \in Tasks : InFlush(t) /\ InFlush(t)' => buffer' = buffer]_vars
    /\ [](\A t \in Tasks : \A k \in 1..Len(RequestsBy(t)) : CarriesBatch(t, k))

\* A flush of two events is in flight and an input call made meanwhile
\* waits for the lock.
C27_Witness ==
    \E t, u \in Tasks :
        /\ InFlush(t)
        /\ Len(Batch(t)) >= 2
        /\ task[u].pc = "waiting"
        /\ task[u].kind = "input"
        /\ Ids(buffer) = Batch(t)


\* ------------------------------------------------------------------ C28
\* The ids of the events handed to the callback `name` by the flush of
\* call t (none when the callback was not invoked).
Handed(t, name) ==
    IF Invocations(t, name) = <<>> THEN <<>>
    ELSE Ids(Invocations(t, name)[1].arg.data)

\* C28: for every flush of a non-empty batch in which every request came
\* back with an outcome, the events reported as sent and those reported
\* as failed are disjoint and all of the batch, and together they are
\* the whole batch: their numbers add up to its length (seen in the
\* arguments of the callbacks that are registered).
C28_OutcomePartitionsBatch ==
    \A t \in Tasks :
        task[t].pc = "done" /\ RequestsBy(t) # <<>> =>
            LET s == Handed(t, "on_success")
                f == Handed(t, "on_failure")
                n == Len(Batch(t))
            IN  /\ Range(s) \cap Range(f) = {}
                /\ Range(s) \cup Range(f) \subseteq Range(Batch(t))
                /\ Cardinality(Range(s)) = Len(s)
                /\ Cardinality(Range(f)) = Len(f)
                /\ on_success /\ on_failure => Len(s) + Len(f) = n
                /\ f # <<>> => Invocations(t, "on_failure")[1].count + Len(f) = n

\* A GET flush of two events has ended with one event reported as sent
\* and the other as failed.
C28_Witness ==
    \E t \in Tasks :
        /\ task[t].pc = "done"
        /\ FlushesBy(t) # <<>>
        /\ Len(Batch(t)) = 2
        /\ Len(Handed(t, "on_success")) = 1
        /\ Len(Handed(t, "on_failure")) = 1


\* ------------------------------------------------------------------ C29
\* The call t has started a flush of a non-empty batch.
FlushedSome(t) == FlushesBy(t) # <<>> /\ Batch(t) # <<>>

\* C29: in POST mode a flush of a non-empty batch makes exactly one
\* request, which carries the whole batch, and its outcome is never
\* mixed: a callback is handed the whole batch or is not invoked, never
\* both callbacks are invoked, and once the request has returned the
\* whole batch goes to on_success if the request succeeded and to
\* on_failure (with 0 as the number sent) if it failed.
C29_PostIsAllOrNothing ==
    \A t \in Tasks :
        method = "post" /\ FlushedSome(t) =>
            LET s == Handed(t, "on_success")
                f == Handed(t, "on_failure")
            IN  /\ Len(RequestsBy(t)) = 1
                /\ RequestsBy(t)[1].verb = "post"
                /\ Ids(RequestsBy(t)[1].body.data) = Batch(t)
                /\ s \in {<<>>, Batch(t)}
                /\ f \in {<<>>, Batch(t)}
                /\ s = <<>> \/ f = <<>>
                /\ task[t].pc = "done" =>
                    /\ on_success /\ RequestsBy(t)[1].result = "ok" => s = Batch(t)
                    /\ on_failure /\ RequestsBy(t)[1].result = "failed" =>
                            /\ f = Batch(t)
                            /\ Invocations(t, "on_failure")[1].count = 0
                    /\ RequestsBy(t)[1].result = "ok" => f = <<>>
                    /\ RequestsBy(t)[1].result = "failed" => s = <<>>

\* A POST flush of two events has ended with both handed to on_failure.
C29_Witness ==
    \E t \in Tasks :
        /\ method = "post"
        /\ task[t].pc = "done"
        /\ FlushesBy(t) # <<>>
        /\ Len(Batch(t)) = 2
        /\ Handed(t, "on_failure") = Batch(t)

\* ------------------------------------------------------------------ C30
\* C30: in GET mode a flush of a batch of n events makes exactly n
\* requests by the time it ends, the k-th carrying the k-th event of the
\* batch, each made only after the one before has ended; a request that
\* failed does not keep the flush from making the remaining ones.
C30_GetOneRequestPerEvent ==
    \A t \in Tasks :
        method = "get" /\ FlushedSome(t) =>
            /\ \A k \in 1..Len(RequestsBy(t)) :
                    /\ RequestsBy(t)[k].verb = "get"
                    /\ CarriesBatch(t, k)
                    /\ k < Len(RequestsBy(t)) => RequestsBy(t)[k].result # "pending"
            /\ task[t].pc \in Ended => Len(RequestsBy(t)) = Len(Batch(t))


\* ------------------------------------------------------------------ C31
\* C31: attach_sent_timestamp gives every payload the key stm, its value
\* the integer number of milliseconds the clock reads.
C31_StmIsClockMillis ==
    probe.op = "attach_sent_timestamp" =>
        \A i \in 1..Len(answer.value) :
            /\ answer.value[i].stm # NoStm
            /\ DOMAIN answer.value[i].stm = {"int"}
            /\ answer.value[i].stm = [int |-> probe.c]


\* ------------------------------------------------------------------ C32
\* The payload as it was handed to the input call that brought the event
\* evt.
Given(evt) == task[evt.id].payload

\* The values of the event evt are as the method wants them: in POST
\* mode the string forms of the values given, in GET mode the values
\* given themselves.
ValuesAsStored(evt) ==
    IF method = "post"
    THEN /\ DOMAIN evt.vals = {"str"}
         /\ evt.vals = [str |-> str(Given(evt).vals.int)]
    ELSE evt.vals = Given(evt).vals

\* C32: in POST mode every value of every payload in the buffer and in
\* every request is a string, the string form of the value handed to
\* input; in GET mode payloads are stored and sent with the values as
\* they were handed to input.
C32_PostStringifiesGetDoesNot ==
    /\ \A i \in 1..Len(buffer) : ValuesAsStored(buffer[i])
    /\ \A k \in 1..Len(requests) :
            \A i \in 1..Len(requests[k].body.data) :
                ValuesAsStored(requests[k].body.data[i])

\* A POST request is under way with two events, which are in the buffer
\* too.
C32_Witness ==
    /\ method = "post"
    /\ Len(buffer) = 2
    /\ \E k \in 1..Len(requests) :
            /\ requests[k].result = "pending"
            /\ requests[k].body.data = buffer


\* ------------------------------------------------------------------ C33
\* No call is in progress.
Quiescent == \A t \in Tasks : task[t].pc \in {"idle", "done", "raised"}

\* The events input has accepted: those of the input calls that got the
\* lock (and so appended their payload).
Accepted == {t \in Tasks : task[t].kind = "input" /\ task[t].pc \in {"http"} \cup Ended}

\* The events that have gone out in some request.
DispatchedEvents == UNION {Carried(requests[k]) : k \in 1..Len(requests)}

\* C33: whenever no call is in progress, the events accepted by input
\* are those in the buffer (each once) together with those dispatched,
\* no event being both in the buffer and dispatched; and no event ever
\* goes out in more than one request.
C33_EventsConserved ==
    /\ Quiescent =>
            /\ Accepted = Range(Ids(buffer)) \cup DispatchedEvents
            /\ Range(Ids(buffer)) \cap DispatchedEvents = {}
            /\ Cardinality(Range(Ids(buffer))) = Len(buffer)
    /\ \A k, j \in 1..Len(requests) :
            k # j => Carried(requests[k]) \cap Carried(requests[j]) = {}


\* ------------------------------------------------------------------ C34
\* No call has ended with an exception.
NoneRaised == \A t \in Tasks : task[t].pc # "raised"

\* C34: whenever the lock is free and no call has ended with an
\* exception, the buffer holds fewer than buffer_size events and, when a
\* byte limit is configured, fewer than byte_limit bytes are queued.
C34_BelowThresholdsWhenUnlocked ==
    ~lock.locked /\ NoneRaised =>
        /\ Len(buffer) < buffer_size
        /\ byte_limit # None => bytes_queued < byte_limit

\* The lock is free after a flush, and the buffer is one event and one
\* payload short of its thresholds.
C34_Witness ==
    /\ ~lock.locked
    /\ NoneRaised
    /\ flushes # <<>>
    /\ Len(buffer) = buffer_size - 1
    /\ Len(buffer) >= 1
    /\ byte_limit # None
    /\ bytes_queued + 2 >= byte_limit


\* ------------------------------------------------------------------ C35
RECURSIVE BytesOf(_)
\* The sum, over the events evts, of len(str(payload)) of the payload as
\* it was handed to input.
BytesOf(evts) ==
    IF evts = <<>> THEN 0
    ELSE StrLen(Given(Head(evts))) + BytesOf(Tail(evts))

\* C35: bytes_queued is None exactly when no byte limit is configured;
\* with a byte limit, whenever the lock is free bytes_queued is the sum
\* over the buffered events of the length of the string form of the
\* payload as it was handed to input.
C35_BytesQueuedIsSumOfBuffer ==
    /\ (bytes_queued = None) <=> (byte_limit = None)
    /\ byte_limit # None /\ ~lock.locked => bytes_queued = BytesOf(buffer)

\* With a byte limit, the lock free: an event of 2 bytes that a
\* timed-out flush has left in the buffer, stamped, and one of 2 bytes
\* put in after it.
C35_Witness ==
    /\ byte_limit # None
    /\ ~lock.locked
    /\ Len(buffer) = 2
    /\ bytes_queued = 4
    /\ buffer[1].stm # NoStm
    /\ buffer[2].stm = NoStm


\* ------------------------------------------------------------------ C36
\* In this step the flush of call t ends with an exception: one that the
\* request wrappers did not catch, or one raised by a callback.
FlushRaises(t) == InFlush(t) /\ task'[t].pc = "raised"

\* Every event of the batch of a flush that ended with an exception is
\* still in the buffer, or a later flush has sent it.
KeptForNextFlush ==
    \A t \in Tasks :
        task[t].pc = "raised" /\ FlushesBy(t) # <<>> =>
            \A i \in 1..Len(Batch(t)) :
                \/ Batch(t)[i] \in Range(Ids(buffer))
                \/ \E k \in 1..Len(requests) :
                        /\ requests[k].task # t
                        /\ Batch(t)[i] \in Carried(requests[k])

\* C36: when a flush ends with an exception (raised by on_success or
\* on_failure, or not caught by the request wrappers), the call ends
\* with it, the lock is released, and buffer and byte count stay as they
\* are, the buffer holding the whole batch; the next flush takes that
\* batch again.
C36_RaisingFlushKeepsBatch ==
    /\ [][\A t \in Tasks :
            FlushRaises(t) =>
                /\ ~lock'.locked
                /\ buffer' = buffer
                /\ Ids(buffer') = Batch(t)
                /\ bytes_queued' = bytes_queued
                /\ byte_limit # None => bytes_queued' = BytesOf(buffer)]_vars
    /\ [][\A t \in Tasks :
            Enters(t) /\ Len(flushes') > Len(flushes) =>
                Range(Ids(buffer)) \subseteq Range(flushes'[Len(flushes')].ids)]_vars
    /\ []KeptForNextFlush

\* on_failure has raised in a flush of two events, with a byte limit,
\* and the next flush has sent the two events again.
C36_Witness ==
    \E t, u \in Tasks :
        /\ t # u
        /\ task[t].pc = "raised"
        /\ FlushesBy(t) # <<>>
        /\ byte_limit # None
        /\ Len(Batch(t)) = 2
        /\ \E k \in 1..Len(callbacks) :
                callbacks[k].task = t /\ callbacks[k].name = "on_failure"
        /\ FlushesBy(u) # <<>>
        /\ Batch(u) = Batch(t)
        /\ RequestsBy(u) # <<>>


\* ------------------------------------------------------------------ C37
\* The lock is held exactly by the call that is inside a flush, and that
\* call is not among those waiting for it.
HeldByFlush ==
    /\ lock.locked <=> \E t \in Tasks : InFlush(t)
    /\ \A t \in Tasks : InFlush(t) => t \notin Range(lock.waiters)

\* A call waiting for the lock can be served: the lock is held by a
\* flush whose request is under way, or it is free and its first waiter
\* can be woken.
NotStuck ==
    (\E t \in Tasks : task[t].pc = "waiting") =>
        \/ \E u \in Tasks : InFlush(u)
        \/ /\ ~lock.locked
           /\ lock.waiters # <<>>
           /\ task[Head(lock.waiters)].pc = "waiting"

\* C37: no call waits for the lock while it holds it, the lock is free
\* as soon as no flush is in flight, no state is a deadlock, and (the
\* lock granted in turn, every request coming to an end) every call that
\* has started ends.
C37_NoDeadlockEveryCallEnds ==
    /\ []HeldByFlush
    /\ []NotStuck
    /\ \A t \in Tasks : (task[t].pc \in {"waiting", "http"}) ~> (task[t].pc \in Ended)

\* The flush started by an input is in flight and both the flush call
\* and the sync_flush call wait for the lock.
C37_Witness ==
    /\ task[1].pc = "http"
    /\ task[2].pc = "waiting"
    /\ task[3].pc = "waiting"
    /\ Len(lock.waiters) = 2


\* ------------------------------------------------------------------ C38
\* What the mapping at address m holds beside the key stm.
BesideStm(m) == [heap[m] EXCEPT !.stm = None]

\* This step is the start of a flush of the get emitter e (in a call of
\* flush, of input, or in a tick of its timer) with the mapping m in its
\* buffer.
FlushStartsWith(e, m) ==
    /\ emitters[e].method = "get"
    /\ emitters[e].flight = "none"
    /\ emitters'[e].flight # "none"
    /\ m \in ItemsOf(heap', emitters[e].buffer)

\* What the buffers refer to: a get emitter buffers the mappings of the
\* caller themselves, a post emitter buffers none of them but mappings of
\* its own, whose values are strings.
BuffersByMethod ==
    \A e \in {1, 2} :
        LET items == ItemsOf(heap, emitters[e].buffer) IN
        IF emitters[e].method = "get"
        THEN items \subseteq Mappings
        ELSE /\ items \cap Mappings = {}
             /\ \A a \in items : heap[a].kind = "dict" /\ heap[a].strs

\* C38: a mapping of the caller changes in its key stm only, and only
\* in the step in which a get emitter that has it in its buffer starts
\* a flush; no step of a post emitter (input, flush, tick, end of a
\* flush) changes it; a get emitter buffers the mapping itself and a
\* post emitter a stringified copy.
C38_OnlyStmOfCallerMappingChanges ==
    /\ [][\A m \in Mappings :
            /\ BesideStm(m)' = BesideStm(m)
            /\ heap'[m] # heap[m] => \E e \in {1, 2} : FlushStartsWith(e, m)
            /\ \A e \in {1, 2} :
                  OnTwo(e) /\ emitters[e].method = "post" => heap'[m] = heap[m]
         ]_vars
    /\ []BuffersByMethod

\* The get emitter has stamped the mapping of the caller, which its
\* flush in flight carries, while the post emitter holds a copy taken of
\* it before, without stm.
C38_Witness ==
    /\ emitters[1].method = "get"
    /\ emitters[2].method = "post"
    /\ emitters[1].flight # "none"
    /\ 1 \in ItemsOf(heap, emitters[1].buffer)
    /\ heap[1].stm # None
    /\ ~heap[1].strs
    /\ \E a \in ItemsOf(heap, emitters[2].buffer) :
          a \notin Mappings /\ heap[a].stm = None /\ heap[a].strs

====
